---- MODULE Spec2Model ----
(***************************************************************************)
(* Model of mete/utils.py: the extrema extractor (find_extrema), the       *)
(* feature builder (build_features), the event segmenter                   *)
(* (PolymerDataset._process_event) and the dataset preparer                *)
(* (PolymerDataset.preprocess).                                            *)
(*                                                                         *)
(* Four specifications share the variables:                                *)
(*   SpecExtrema   find_extrema applied to bounded events and thresholds   *)
(*   SpecFeatures  build_features applied to bounded windows               *)
(*   SpecSegment   _process_event, one window per step                     *)
(*   Spec          PolymerDataset.__init__ / preprocess, phase by phase    *)
(***************************************************************************)
EXTENDS Integers, Sequences, FiniteSets, TLC

(* ---------------- bounds of the model ---------------- *)

\* find_extrema inputs (SpecExtrema): events of 0..ExtMaxLen samples,
\* currents 0..ExtMaxCur relative to the first sample's, thresholds 0..MaxTh
ExtMaxLen == 6
ExtMaxCur == 5
MaxTh == 3

\* build_features inputs (SpecFeatures): windows of 0..WinMaxLen samples,
\* WinCurSpan + 1 current values from -1 upwards, thresholds 0..WinMaxTh
\* (0 is the default of build_features)
WinMaxLen == 6
WinCurSpan == 1
WinMaxTh == 0

WinCurrents == { c - 1 : c \in 0..WinCurSpan }

\* _process_event inputs (SpecSegment): events of 0..SegMaxLen samples,
\* currents 0..SegMaxCur, timesteps 1..SegMaxT, stepsize None or
\* 0..SegMaxStep, thresholds 0..SegMaxTh
SegMaxLen == 3
SegMaxCur == 1
SegMaxT == 3
SegMaxStep == 2
SegMaxTh == 0

\* preprocess inputs (Spec): up to MaxClasses classes holding up to
\* MaxEvents events in all, timesteps None or 0..PreMaxT
MaxClasses == 2
MaxEvents == 4
PreMaxT == 1

(* ---------------- values ---------------- *)

\* Python's None for the optional arguments timesteps / stepsize;
\* a given value n is <<n>>
None == <<>>

Some(n) == <<n>>

\* Python truthiness of an optional integer: None and 0 are falsy
Truthy(x) == x # None /\ x[1] # 0

\* no call of find_extrema made yet
NoCalls == <<>>

Abs(x) == IF x < 0 THEN 0 - x ELSE x

\* a sample is <<time, current>>; event[i, 0] and event[i, 1] in the source
Time(sample) == sample[1]

Current(sample) == sample[2]

\* the event of n samples taken at times 0, 1, 2, ... (ms) whose first
\* current is c0 and whose other currents are cs[2], ..., cs[n]
MkEvent(n, c0, cs) == [i \in 1..n |-> <<i - 1, IF i = 1 THEN c0 ELSE cs[i]>>]

VARIABLES
    event,        \* the event handed to find_extrema / _process_event
    found,        \* SpecExtrema: threshold -> result of find_extrema(event, threshold)
    sub_event,    \* the window handed to build_features
    extrema_th,   \* the extrema_th argument of build_features / _process_event
    window_extrema, \* what find_extrema returned inside build_features (line 85)
    peaks_idx,    \* what find_peaks_cwt returned for sub_event (ascending indices)
    features,     \* the dict build_features returned for sub_event
    timesteps,    \* the timesteps argument / local (None or <<n>>)
    arg_stepsize, \* the stepsize argument as passed (None or <<n>>)
    stepsize,     \* the local stepsize of _process_event after line 126
    row_i,        \* the loop index of _process_event (line 127)
    compressed_event, \* the rows _process_event has appended (line 130)
    raw_data,     \* self.raw_data: per class, the loaded events
    arg_timesteps, \* the timesteps argument of preprocess as passed
    balanced_data, \* preprocess: the balanced subsets (lines 143-147)
    normal_data,  \* preprocess: the events kept by the length filter (lines 150-161)
    data,         \* preprocess: the processed events (line 171)
    labels,       \* preprocess: their class indices (line 172)
    self_data,    \* self.data: None until line 174 sets it
    self_labels,  \* self.labels: None until line 175 sets it
    raised,       \* the exception preprocess raised, "none" if none
    pc            \* the operation in progress, or the phase preprocess has reached

segvars == <<timesteps, arg_stepsize, stepsize, row_i, compressed_event>>

prevars == <<raw_data, arg_timesteps, balanced_data, normal_data, data, labels,
             self_data, self_labels, raised>>

vars == <<event, found, sub_event, extrema_th, window_extrema, peaks_idx, features,
          timesteps, arg_stepsize, stepsize, row_i, compressed_event,
          raw_data, arg_timesteps, balanced_data, normal_data, data, labels,
          self_data, self_labels, raised, pc>>

(* ---------------- find_extrema ---------------- *)

\* line 20: sample i is a candidate extremum
IsCandidate(prev_change, next_change) == prev_change * next_change >= 0

AcceptsFlipped(this_current, last_current, th) ==
    Abs(this_current - last_current) < th

AcceptsNonStrict(this_current, last_current, th) ==
    Abs(this_current - last_current) >= th

\* lines 21-22: a candidate is accepted against the last accepted extremum
Accepts(this_current, last_current, th) ==
    Abs(this_current - last_current) > th

\* lines 14-23: the loop over the interior samples. i is the 1-based index
\* (Python index i-1); extrema is the list of indices appended so far, so
\* that extrema[-1][1] is Current(ev[extrema[Len(extrema)]]).
RECURSIVE extrema_loop(_, _, _, _)
extrema_loop(ev, th, i, extrema) ==
    IF i > Len(ev) - 1
    THEN extrema
    ELSE LET this_current == Current(ev[i])
             prev_current == Current(ev[i - 1])
             next_current == Current(ev[i + 1])
             prev_change  == this_current - prev_current
             next_change  == this_current - next_current
             last_current == Current(ev[extrema[Len(extrema)]])
         IN  IF IsCandidate(prev_change, next_change)
                /\ Accepts(this_current, last_current, th)
             THEN extrema_loop(ev, th, i + 1, Append(extrema, i))
             ELSE extrema_loop(ev, th, i + 1, extrema)

extrema_idx_no_last(ev, th) ==
    LET body == extrema_loop(ev, th, 2, <<1>>)
        last_current == Current(ev[body[Len(body)]])
    IN  IF Accepts(Current(ev[Len(ev)]), last_current, th)
        THEN Append(body, Len(ev))
        ELSE body

\* lines 11-25: the indices of the samples appended to extrema, in order:
\* event[0], the accepted interior samples, event[-1]. Requires Len(ev) >= 1
\* (event[0] raises IndexError on an empty event).
extrema_idx(ev, th) ==
    Append(extrema_loop(ev, th, 2, <<1>>), Len(ev))

\* lines 10-27: the returned array of samples
find_extrema(ev, th) ==
    LET idx == extrema_idx(ev, th)
    IN  [k \in 1..Len(idx) |-> ev[idx[k]]]

\* result of a call: the index list and the samples, or the IndexError
\* that event[0] raises on an empty event
CallFindExtrema(ev, th) ==
    IF Len(ev) = 0
    THEN [raised |-> TRUE, idx |-> <<>>, extrema |-> <<>>]
    ELSE [raised |-> FALSE,
          idx |-> extrema_idx(ev, th),
          extrema |-> find_extrema(ev, th)]

(* ---------------- numbers ---------------- *)

\* The feature values are real numbers. A value is kept exactly, as
\* (num/den)^(1/root) in lowest terms with den > 0 and root 1 or 2.
RECURSIVE Gcd(_, _)
Gcd(a, b) == IF b = 0 THEN a ELSE Gcd(b, a % b)

Ratio(n, d) ==
    LET g == Gcd(Abs(n), d)
    IN  [num |-> n \div g, den |-> d \div g, root |-> 1]

IntVal(k) == Ratio(k, 1)

Zero == IntVal(0)

ISqrt(n) == CHOOSE r \in 0..n : r * r <= n /\ (r + 1) * (r + 1) > n

\* the square root of the non-negative rational n/d
SqrtRatio(n, d) ==
    LET q == Ratio(n, d)
        a == ISqrt(q.num)
        b == ISqrt(q.den)
    IN  IF a * a = q.num /\ b * b = q.den
        THEN Ratio(a, b)
        ELSE [num |-> q.num, den |-> q.den, root |-> 2]

RECURSIVE SumSeq(_)
SumSeq(xs) == IF xs = <<>> THEN 0 ELSE xs[1] + SumSeq(Tail(xs))

RECURSIVE SumSqSeq(_)
SumSqSeq(xs) == IF xs = <<>> THEN 0 ELSE xs[1] * xs[1] + SumSqSeq(Tail(xs))

\* np.mean, np.std (population standard deviation), np.max, np.min of a
\* non-empty list of integers
np_mean(xs) == Ratio(SumSeq(xs), Len(xs))

np_std(xs) ==
    SqrtRatio(Len(xs) * SumSqSeq(xs) - SumSeq(xs) * SumSeq(xs), Len(xs) * Len(xs))

np_max(xs) == CHOOSE m \in { xs[k] : k \in 1..Len(xs) } : \A k \in 1..Len(xs) : xs[k] <= m

np_min(xs) == CHOOSE m \in { xs[k] : k \in 1..Len(xs) } : \A k \in 1..Len(xs) : xs[k] >= m

\* sorted(xs, reverse=True): insertion into a descending list
RECURSIVE InsertDesc(_, _)
InsertDesc(x, sorted) ==
    IF sorted = <<>> THEN <<x>>
    ELSE IF x >= sorted[1] THEN <<x>> \o sorted
    ELSE <<sorted[1]>> \o InsertDesc(x, Tail(sorted))

RECURSIVE InsertAsc(_, _)
InsertAsc(x, sorted) ==
    IF sorted = <<>> THEN <<x>>
    ELSE IF x <= sorted[1] THEN <<x>> \o sorted
    ELSE <<sorted[1]>> \o InsertAsc(x, Tail(sorted))

RECURSIVE sorted_ascending(_)
sorted_ascending(xs) ==
    IF xs = <<>> THEN <<>> ELSE InsertAsc(xs[1], sorted_ascending(Tail(xs)))

RECURSIVE sorted_reverse(_)
sorted_reverse(xs) ==
    IF xs = <<>> THEN <<>> ELSE InsertDesc(xs[1], sorted_reverse(Tail(xs)))

(* ---------------- build_features ---------------- *)

\* the keys of the features dict in insertion order (lines 59-77); the row
\* np.array(list(features.values())) follows this order
FieldOrder ==
    << "num_signals", "duration", "max_current", "min_current", "mean_current",
       "std_current", "num_extrema", "mean_extrema", "std_extrema",
       "mean_extrema_diff", "num_peaks", "mean_peaks",
       "peak_1", "peak_2", "peak_3", "peak_4", "peak_5" >>

\* lines 59-77: the dict as initialised
ZeroFeatures ==
    [ num_signals |-> Zero, duration |-> Zero, max_current |-> Zero,
      min_current |-> Zero, mean_current |-> Zero, std_current |-> Zero,
      num_extrema |-> Zero, mean_extrema |-> Zero, std_extrema |-> Zero,
      mean_extrema_diff |-> Zero, num_peaks |-> Zero, mean_peaks |-> Zero,
      peak_1 |-> Zero, peak_2 |-> Zero, peak_3 |-> Zero, peak_4 |-> Zero,
      peak_5 |-> Zero ]

\* event[:, 1]
CurrentColumn(ev) == [k \in 1..Len(ev) |-> Current(ev[k])]

\* the flattened (time, current) values of an array of samples
Flatten(ev) == [k \in 1..(2 * Len(ev)) |-> ev[(k + 1) \div 2][IF k % 2 = 1 THEN 1 ELSE 2]]

\* line 89: [extrema[i, 1] - extrema[i-1, 1] for i in range(1, len(extrema))], in abs
ExtremaDiffs(extrema) ==
    [k \in 1..(Len(extrema) - 1) |-> Abs(Current(extrema[k + 1]) - Current(extrema[k]))]

\* lines 95-99: peaks[k-1] if len(peaks) > k-1 else 0
PeakSlot(peaks, k) == IF Len(peaks) > k - 1 THEN IntVal(peaks[k]) ELSE Zero

\* lines 79-89: the fields of a non-empty window that do not depend on the
\* detected peaks
window_features(ev, th) ==
    LET cur     == CurrentColumn(ev)
        extrema == find_extrema(ev, th)
    IN  [ ZeroFeatures EXCEPT
            !.num_signals = IntVal(Len(ev)),
            !.duration = IntVal(Time(ev[Len(ev)])),
            !.max_current = IntVal(np_max(cur)),
            !.min_current = IntVal(np_min(cur)),
            !.mean_current = np_mean(cur),
            !.std_current = np_std(cur),
            !.num_extrema = IntVal(Len(extrema)),
            !.mean_extrema = np_mean(Flatten(extrema)),
            !.std_extrema = np_std(Flatten(extrema)),
            !.mean_extrema_diff = np_mean(ExtremaDiffs(extrema)) ]

\* lines 90-99: the peak fields. peaks is what find_peaks_cwt returns for
\* the window: a list of ascending 1-based indices into ev; the detector is
\* an external library, so the caller supplies its result.
peak_features(base, ev, peaks) ==
    LET counted == [ base EXCEPT !.num_peaks = IntVal(Len(peaks)) ]
    IN  IF Len(peaks) > 0
        THEN LET sorted_peaks ==
                     sorted_reverse([k \in 1..Len(peaks) |-> Current(ev[peaks[k]])])
             IN  [ counted EXCEPT
                     !.mean_peaks = np_mean(sorted_peaks),
                     !.peak_1 = PeakSlot(sorted_peaks, 1),
                     !.peak_2 = PeakSlot(sorted_peaks, 2),
                     !.peak_3 = PeakSlot(sorted_peaks, 3),
                     !.peak_4 = PeakSlot(sorted_peaks, 4),
                     !.peak_5 = PeakSlot(sorted_peaks, 5) ]
        ELSE counted

\* lines 58-100
build_features(ev, th, peaks) ==
    IF Len(ev) > 0
    THEN peak_features(window_features(ev, th), ev, peaks)
    ELSE ZeroFeatures

\* line 130: np.array(list(features.values()))
FeatureRow(f) == [k \in 1..Len(FieldOrder) |-> f[FieldOrder[k]]]

\* the ascending list of the elements of a set of indices within 1..n
AscendingList(S, n) == SelectSeq([k \in 1..n |-> k], LAMBDA k : k \in S)

\* the index lists find_peaks_cwt may return for a signal of n samples
PeakDetections(n) == { AscendingList(S, n) : S \in SUBSET (1..n) }

(* ---------------- _process_event ---------------- *)

FloorDiv(a, b) == a \div b

\* int(np.ceil(a / b)) for a >= 0, b > 0
CeilDiv(a, b) == (a + b - 1) \div b

Min(a, b) == IF a <= b THEN a ELSE b

\* the Python slice ev[lo:hi] for 0 <= lo <= hi (0-based, hi exclusive,
\* clamped to the length)
Slice(ev, lo, hi) ==
    IF lo >= Min(hi, Len(ev)) THEN <<>> ELSE SubSeq(ev, lo + 1, Min(hi, Len(ev)))

\* line 126: stepsize or int(np.ceil(len(event) / timesteps))
ResolveStepsize(given, len, T) ==
    IF Truthy(given) THEN given[1] ELSE CeilDiv(len, T)

\* no _process_event call in progress
SegmentIdle ==
    /\ timesteps = None /\ arg_stepsize = None /\ stepsize = 0
    /\ row_i = 0 /\ compressed_event = <<>>

(* ---------------- preprocess ---------------- *)

\* lines 154, 156: the fixed length thresholds of the filter
min_event_len == 50

max_event_len == 10000

\* An event of a class is kept as its position in the loaded file and its
\* number of samples, [id |-> position, len |-> len(event)].
MkRawEvent(pos, length) == [id |-> pos, len |-> length]

\* no preprocess call in progress
PreprocessIdle ==
    /\ raw_data = <<>> /\ arg_timesteps = None
    /\ balanced_data = <<>> /\ normal_data = <<>>
    /\ data = <<>> /\ labels = <<>>
    /\ self_data = None /\ self_labels = None
    /\ raised = "none"

MissingConfigEither(t, s) == ~Truthy(t) \/ ~Truthy(s)

\* line 137: not timesteps and not stepsize
MissingConfig(t, s) == ~Truthy(t) /\ ~Truthy(s)

\* line 144: min([len(d) for d in self.raw_data]), for a non-empty list
MinDataSize(raw) ==
    CHOOSE m \in { Len(raw[c]) : c \in 1..Len(raw) } :
        \A c \in 1..Len(raw) : m <= Len(raw[c])

\* lines 146-147: indices[:min_data_size] of a permutation of range(n) is
\* a list of m distinct positions (1-based here); the generator decides which
Selections(n, m) ==
    { sel \in [1..m -> 1..n] : \A a, b \in 1..m : a # b => sel[a] # sel[b] }

\* line 147: r_data[indices[:min_data_size]]
TakeEvents(r_data, sel) == [k \in 1..Len(sel) |-> r_data[sel[k]]]

RetainedInclusive(ev) == ev.len >= min_event_len /\ ev.len < max_event_len

\* line 159
Retained(ev) == ev.len > min_event_len /\ ev.len < max_event_len

\* lines 157-160: the events of b_data that pass, in order
RECURSIVE normal_events(_)
normal_events(b_data) ==
    IF b_data = <<>> THEN <<>>
    ELSE IF Retained(b_data[1])
         THEN <<b_data[1]>> \o normal_events(Tail(b_data))
         ELSE normal_events(Tail(b_data))

\* line 164: the lengths np.max ranges over
RetainedLens(ndata) ==
    UNION { { ndata[c][k].len : k \in 1..Len(ndata[c]) } : c \in 1..Len(ndata) }

MaxOf(S) == CHOOSE m \in S : \A x \in S : x <= m

\* the length of the Python slice ev[lo:hi] of an event of len samples
SliceLen(len, lo, hi) == IF lo >= Min(hi, len) THEN 0 ELSE Min(hi, len) - lo

\* lines 124-131 on an event given by its length: the rows of the returned
\* array, each row given by its num_signals field (the window's sample
\* count); the other 16 fields are those of build_features on the window
process_event_rows(len, T, given_stepsize) ==
    LET step == ResolveStepsize(given_stepsize, len, T)
    IN  [k \in 1..T |-> SliceLen(len, (k - 1) * step, k * step)]

\* lines 168-172: the processed events and labels of classes c..Len(ndata),
\* class by class and event by event; labels are the 0-based data_index
RECURSIVE processed(_, _, _, _)
processed(ndata, c, T, given_stepsize) ==
    IF c > Len(ndata) THEN [data |-> <<>>, labels |-> <<>>]
    ELSE LET rest == processed(ndata, c + 1, T, given_stepsize)
         IN  [data |-> [k \in 1..Len(ndata[c]) |->
                          process_event_rows(ndata[c][k].len, T, given_stepsize)]
                       \o rest.data,
              labels |-> [k \in 1..Len(ndata[c]) |-> c - 1] \o rest.labels]

(* ---------------- SpecFeatures ---------------- *)

InitFeatures ==
    /\ pc = "build_features"
    /\ \E n \in 0..WinMaxLen : \E c0 \in WinCurrents : \E cs \in [2..n -> WinCurrents] :
           sub_event = MkEvent(n, c0, cs)
    /\ extrema_th \in 0..WinMaxTh
    /\ event = <<>> /\ found = NoCalls
    /\ window_extrema = <<>> /\ peaks_idx = <<>> /\ features = <<>>
    /\ SegmentIdle
    /\ PreprocessIdle

\* build_features(sub_event, extrema_th) on a non-empty window: the peak
\* detector runs (line 90) and returns peaks
BuildFeatures ==
    /\ pc = "build_features"
    /\ Len(sub_event) > 0
    /\ window_extrema' = CallFindExtrema(sub_event, extrema_th)
    /\ pc' = "built"
    /\ UNCHANGED <<event, found, sub_event, extrema_th>>
    /\ UNCHANGED segvars
    /\ UNCHANGED prevars
    /\ \E base \in { window_features(sub_event, extrema_th) } :
          \E peaks \in PeakDetections(Len(sub_event)) :
              /\ peaks_idx' = peaks
              /\ features' = peak_features(base, sub_event, peaks)

\* build_features(sub_event, extrema_th) on an empty window: line 78 skips
\* the body, the detector is not called
BuildFeaturesEmpty ==
    /\ pc = "build_features"
    /\ Len(sub_event) = 0
    /\ features' = build_features(sub_event, extrema_th, <<>>)
    /\ pc' = "built"
    /\ UNCHANGED <<event, found, sub_event, extrema_th, window_extrema, peaks_idx>>
    /\ UNCHANGED segvars
    /\ UNCHANGED prevars

NextFeatures == BuildFeatures \/ BuildFeaturesEmpty

SpecFeatures == InitFeatures /\ [][NextFeatures]_vars

(* ---------------- SpecSegment ---------------- *)

InitSegment ==
    /\ pc = "process_event"
    /\ \E n \in 0..SegMaxLen : \E c0 \in 0..SegMaxCur : \E cs \in [2..n -> 0..SegMaxCur] :
           event = MkEvent(n, c0, cs)
    /\ timesteps \in { Some(T) : T \in 1..SegMaxT }
    /\ arg_stepsize \in {None} \cup { Some(k) : k \in 0..SegMaxStep }
    /\ extrema_th \in 0..SegMaxTh
    /\ stepsize = 0 /\ row_i = 0 /\ compressed_event = <<>>
    /\ found = NoCalls /\ sub_event = <<>>
    /\ window_extrema = <<>> /\ peaks_idx = <<>> /\ features = <<>>
    /\ PreprocessIdle

\* lines 125-126: compressed_event = [], the stepsize is resolved
ProcessEventStart ==
    /\ pc = "process_event"
    /\ stepsize' = ResolveStepsize(arg_stepsize, Len(event), timesteps[1])
    /\ compressed_event' = <<>>
    /\ row_i' = 0
    /\ pc' = "window"
    /\ UNCHANGED <<event, found, sub_event, extrema_th, window_extrema, peaks_idx,
                   features, timesteps, arg_stepsize>>
    /\ UNCHANGED prevars

\* lines 128-130, one iteration of the loop on a non-empty window
ProcessWindow ==
    /\ pc = "window"
    /\ row_i < timesteps[1]
    /\ row_i' = row_i + 1
    /\ UNCHANGED <<event, found, extrema_th, timesteps, arg_stepsize, stepsize, pc>>
    /\ UNCHANGED prevars
    /\ \E w \in { Slice(event, row_i * stepsize, (row_i + 1) * stepsize) } :
          /\ Len(w) > 0
          /\ sub_event' = w
          /\ window_extrema' = CallFindExtrema(w, extrema_th)
          /\ \E base \in { window_features(w, extrema_th) } :
                \E peaks \in PeakDetections(Len(w)) :
                    \E f \in { peak_features(base, w, peaks) } :
                        /\ peaks_idx' = peaks
                        /\ features' = f
                        /\ compressed_event' = Append(compressed_event, FeatureRow(f))

\* lines 128-130, one iteration of the loop on an empty window
ProcessWindowEmpty ==
    /\ pc = "window"
    /\ row_i < timesteps[1]
    /\ LET w == Slice(event, row_i * stepsize, (row_i + 1) * stepsize)
       IN  /\ Len(w) = 0
           /\ sub_event' = w
           /\ features' = build_features(w, extrema_th, <<>>)
           /\ compressed_event' =
                  Append(compressed_event, FeatureRow(build_features(w, extrema_th, <<>>)))
    /\ row_i' = row_i + 1
    /\ UNCHANGED <<event, found, extrema_th, window_extrema, peaks_idx,
                   timesteps, arg_stepsize, stepsize, pc>>
    /\ UNCHANGED prevars

\* line 131: the loop is over, the array is returned
ProcessEventReturn ==
    /\ pc = "window"
    /\ row_i = timesteps[1]
    /\ pc' = "returned"
    /\ UNCHANGED <<event, found, sub_event, extrema_th, window_extrema, peaks_idx,
                   features, timesteps, arg_stepsize, stepsize, row_i, compressed_event>>
    /\ UNCHANGED prevars

NextSegment ==
    \/ ProcessEventStart
    \/ ProcessWindow
    \/ ProcessWindowEmpty
    \/ ProcessEventReturn

SpecSegment == InitSegment /\ [][NextSegment]_vars

(* ---------------- Spec: PolymerDataset(...) running preprocess ---------------- *)

\* the lengths the loaded events have: at and next to the filter thresholds
EventLens == { min_event_len, min_event_len + 1, max_event_len - 1, max_event_len }

\* the argument values tried
TimestepsArgs == {None} \cup { Some(T) : T \in 0..PreMaxT }

StepsizeArgs == { None, Some(0), Some(5000) }

\* a loaded class. The order in the file is immaterial to preprocess (line
\* 146 permutes it), so the files are taken in non-decreasing order of
\* length.
ClassFiles ==
    UNION { { [k \in 1..n |-> MkRawEvent(k, lens[k])] :
                lens \in { f \in [1..n -> EventLens] :
                              \A k \in 1..(n - 1) : f[k] <= f[k + 1] } } :
            n \in 0..MaxEvents }

RECURSIVE TotalEvents(_)
TotalEvents(raw) == IF raw = <<>> THEN 0 ELSE Len(raw[1]) + TotalEvents(Tail(raw))

\* lines 103-106: the files are loaded and preprocess is called
Init ==
    /\ pc = "preprocess"
    /\ \E N \in 0..MaxClasses : raw_data \in [1..N -> ClassFiles]
    /\ TotalEvents(raw_data) <= MaxEvents
    /\ arg_timesteps \in TimestepsArgs
    /\ arg_stepsize \in StepsizeArgs
    /\ timesteps = arg_timesteps
    /\ balanced_data = <<>> /\ normal_data = <<>>
    /\ data = <<>> /\ labels = <<>>
    /\ self_data = None /\ self_labels = None
    /\ raised = "none"
    /\ stepsize = 0 /\ row_i = 0 /\ compressed_event = <<>>
    /\ event = <<>> /\ found = NoCalls /\ sub_event = <<>> /\ extrema_th = 0
    /\ window_extrema = <<>> /\ peaks_idx = <<>> /\ features = <<>>

others == <<event, found, sub_event, extrema_th, window_extrema, peaks_idx, features,
            stepsize, row_i, compressed_event, raw_data, arg_timesteps, arg_stepsize>>

\* lines 134-138: the arguments are checked, ValueError if both are missing
CheckArgs ==
    /\ pc = "preprocess"
    /\ IF MissingConfig(timesteps, arg_stepsize)
       THEN pc' = "raised" /\ raised' = "config"
       ELSE pc' = "balance" /\ raised' = raised
    /\ UNCHANGED <<timesteps, balanced_data, normal_data, data, labels,
                   self_data, self_labels>>
    /\ UNCHANGED others

\* line 144 with no class: min() of an empty list raises ValueError
BalanceNoClass ==
    /\ pc = "balance"
    /\ Len(raw_data) = 0
    /\ pc' = "raised" /\ raised' = "min_empty"
    /\ UNCHANGED <<timesteps, balanced_data, normal_data, data, labels,
                   self_data, self_labels>>
    /\ UNCHANGED others

\* lines 143-147: every class is cut to min_data_size randomly chosen events
Balance ==
    /\ pc = "balance"
    /\ Len(raw_data) > 0
    /\ LET min_data_size == MinDataSize(raw_data)
       IN  \E sels \in [1..Len(raw_data) -> Selections(MaxEvents, min_data_size)] :
              /\ \A c \in 1..Len(raw_data) :
                    sels[c] \in Selections(Len(raw_data[c]), min_data_size)
              /\ balanced_data' =
                    [c \in 1..Len(raw_data) |-> TakeEvents(raw_data[c], sels[c])]
    /\ pc' = "filter"
    /\ UNCHANGED <<timesteps, normal_data, data, labels, self_data, self_labels, raised>>
    /\ UNCHANGED others

\* lines 150-161: too short and too long events are removed
Filter ==
    /\ pc = "filter"
    /\ normal_data' = [c \in 1..Len(balanced_data) |-> normal_events(balanced_data[c])]
    /\ pc' = "resolve"
    /\ UNCHANGED <<timesteps, balanced_data, data, labels, self_data, self_labels, raised>>
    /\ UNCHANGED others

\* line 164 with no event left in any class: np.max of an empty list
\* raises ValueError
ResolveNoEvent ==
    /\ pc = "resolve"
    /\ RetainedLens(normal_data) = {}
    /\ pc' = "raised" /\ raised' = "max_empty"
    /\ UNCHANGED <<timesteps, balanced_data, normal_data, data, labels,
                   self_data, self_labels>>
    /\ UNCHANGED others

\* lines 164-165: timesteps or int(np.ceil(max_event_len / stepsize))
ResolveTimesteps ==
    /\ pc = "resolve"
    /\ RetainedLens(normal_data) # {}
    /\ timesteps' = IF Truthy(timesteps)
                    THEN timesteps
                    ELSE Some(CeilDiv(MaxOf(RetainedLens(normal_data)), arg_stepsize[1]))
    /\ pc' = "segment"
    /\ UNCHANGED <<balanced_data, normal_data, data, labels, self_data, self_labels, raised>>
    /\ UNCHANGED others

\* lines 168-176: every kept event is processed and labelled, then
\* self.data and self.labels are set
Segment ==
    /\ pc = "segment"
    /\ LET out == processed(normal_data, 1, timesteps[1], arg_stepsize)
       IN  /\ data' = out.data
           /\ labels' = out.labels
           /\ self_data' = Some(out.data)
           /\ self_labels' = Some(out.labels)
    /\ pc' = "done"
    /\ UNCHANGED <<timesteps, balanced_data, normal_data, raised>>
    /\ UNCHANGED others

Next ==
    \/ CheckArgs
    \/ BalanceNoClass
    \/ Balance
    \/ Filter
    \/ ResolveNoEvent
    \/ ResolveTimesteps
    \/ Segment

Spec == Init /\ [][Next]_vars

(* ---------------- SpecExtrema ---------------- *)

Thresholds == 0..MaxTh

InitExtrema ==
    /\ pc = "find_extrema"
    /\ \E n \in 0..ExtMaxLen : \E cs \in [2..n -> 0..ExtMaxCur] :
           event = MkEvent(n, 0, cs)
    /\ found = NoCalls
    /\ sub_event = <<>> /\ extrema_th = 0
    /\ window_extrema = <<>> /\ peaks_idx = <<>> /\ features = <<>>
    /\ SegmentIdle
    /\ PreprocessIdle

\* find_extrema(event, th) is called; the thresholds are tried in
\* increasing order and every result is kept
FindExtrema(th) ==
    /\ pc = "find_extrema"
    /\ th \notin DOMAIN found
    /\ \A lower \in Thresholds : lower < th => lower \in DOMAIN found
    /\ found' = (th :> CallFindExtrema(event, th)) @@ found
    /\ UNCHANGED <<event, sub_event, extrema_th, window_extrema, peaks_idx, features, pc>>
    /\ UNCHANGED segvars
    /\ UNCHANGED prevars

NextExtrema == \E th \in Thresholds : FindExtrema(th)

SpecExtrema == InitExtrema /\ [][NextExtrema]_vars

(* ---------------- claims about find_extrema (SpecExtrema) ---------------- *)

Returned(th) == found[th].extrema

\* C1 as stated: for every event of at least 2 samples and thresholds
\* a < b, find_extrema(E, a) returns at least as many samples as
\* find_extrema(E, b).
C1_MonotonicThreshold ==
    \A a \in DOMAIN found : \A b \in DOMAIN found :
        (Len(event) >= 2 /\ a < b) => Len(Returned(a)) >= Len(Returned(b))

\* C1 amended: for every event of at least 2 samples and every threshold
\* b > 0, find_extrema(E, 0) returns at least as many samples as
\* find_extrema(E, b).
C1_MonotonicFromZero ==
    \A b \in DOMAIN found :
        (Len(event) >= 2 /\ 0 \in DOMAIN found /\ 0 < b)
            => Len(Returned(0)) >= Len(Returned(b))

\* an event on which threshold 0 keeps strictly more samples than threshold 2
C1_Witness ==
    /\ Len(event) >= 2
    /\ {0, 2} \subseteq DOMAIN found
    /\ Len(Returned(0)) > Len(Returned(2))
    /\ Len(Returned(2)) > 2

\* C5: for every event of at least 2 samples and every threshold >= 0 the
\* first returned sample is E[0] and the last is E[-1]; a two-sample event
\* yields exactly its two samples.
C5_Endpoints ==
    \A th \in DOMAIN found :
        /\ Len(event) >= 2 =>
              /\ ~found[th].raised
              /\ Len(Returned(th)) >= 2
              /\ Returned(th)[1] = event[1]
              /\ Returned(th)[Len(Returned(th))] = event[Len(event)]
        /\ Len(event) = 2 => Returned(th) = <<event[1], event[2]>>

\* the last sample is returned although it is within the threshold of the
\* extremum accepted before it, on an event with interior samples
C5_Witness ==
    \E th \in DOMAIN found :
        /\ Len(event) >= 3
        /\ th > 0
        /\ LET r == Returned(th)
           IN  /\ Len(r) >= 3
               /\ Abs(Current(r[Len(r)]) - Current(r[Len(r) - 1])) <= th

\* C9: every accepted interior sample of the output is a candidate
\* ((c[i]-c[i-1])*(c[i]-c[i+1]) >= 0) whose current differs from that of the
\* output element just before it by strictly more than extrema_th; only the
\* first and the final appended sample are exempt.
C9_NoiseGap ==
    \A th \in DOMAIN found :
        ~found[th].raised =>
            LET idx == found[th].idx
            IN  \A k \in 2..(Len(idx) - 1) :
                    LET i == idx[k]
                    IN  /\ 1 < i /\ i < Len(event)
                        /\ (Current(event[i]) - Current(event[i - 1]))
                             * (Current(event[i]) - Current(event[i + 1])) >= 0
                        /\ Abs(Current(event[i]) - Current(event[idx[k - 1]])) > th

\* a call with a positive threshold that accepts an interior sample and
\* rejects a candidate for being within the threshold
C9_Witness ==
    \E th \in DOMAIN found :
        /\ th > 0
        /\ ~found[th].raised
        /\ Len(found[th].idx) >= 3
        /\ \E i \in 2..(Len(event) - 1) :
              /\ (Current(event[i]) - Current(event[i - 1]))
                   * (Current(event[i]) - Current(event[i + 1])) >= 0
              /\ \A k \in 1..Len(found[th].idx) : found[th].idx[k] # i

(* ---------------- claims about build_features (SpecFeatures) ---------------- *)

\* the currents at the detected peak indices, one per detected index
PeakCurrentAt(p) == Current(sub_event[p])

DetectedPeaks == { peaks_idx[k] : k \in 1..Len(peaks_idx) }

\* how many detected peaks have a current above / at least v
PeaksAbove(v) == Cardinality({ p \in DetectedPeaks : PeakCurrentAt(p) > v })

PeaksAtLeast(v) == Cardinality({ p \in DetectedPeaks : PeakCurrentAt(p) >= v })

PeakFields == << "peak_1", "peak_2", "peak_3", "peak_4", "peak_5" >>

\* slot k holds the k-th largest detected peak current, or 0 when fewer than
\* k peaks were detected
SlotIsKthLargest(k) ==
    LET slot == features[PeakFields[k]]
    IN  IF k <= Len(peaks_idx)
        THEN /\ slot.den = 1 /\ slot.root = 1
             /\ \E p \in DetectedPeaks : PeakCurrentAt(p) = slot.num
             /\ PeaksAbove(slot.num) < k
             /\ PeaksAtLeast(slot.num) >= k
        ELSE slot = Zero

\* peaks ranked sixth and below are not represented: a peak current with
\* five or more detected peaks above it is in no slot
LowerRanksAbsent ==
    \A p \in DetectedPeaks :
        PeaksAbove(PeakCurrentAt(p)) >= 5 =>
            \A k \in 1..5 : features[PeakFields[k]] # IntVal(PeakCurrentAt(p))

NoPeaksAllZero ==
    Len(peaks_idx) = 0 =>
        /\ features.mean_peaks = Zero
        /\ \A k \in 1..5 : features[PeakFields[k]] = Zero

\* i.e. num/den of slot k >= num/den of slot k+1
SlotsDescend(k) == features[PeakFields[k]].num >= features[PeakFields[k + 1]].num

\* C6 as stated: for every non-empty window and every set of peak indices,
\* peak_1..peak_5 are the five largest peak currents in descending order
\* with peak_1 >= peak_2 >= ... >= peak_5 over all five slots, a slot is 0
\* when fewer than that many peaks exist, all five and mean_peaks are 0
\* without peaks, and lower-ranked peaks are not represented.
C6_PeakRankingAllSlotsDescend ==
    (pc = "built" /\ Len(sub_event) > 0) =>
        /\ \A k \in 1..5 : SlotIsKthLargest(k)
        /\ \A k \in 1..4 : SlotsDescend(k)
        /\ NoPeaksAllZero
        /\ LowerRanksAbsent

\* C6 amended: as stated, except that the descending order
\* peak_k >= peak_(k+1) is claimed only between slots that both hold a
\* detected peak (k+1 <= num_peaks); an unfilled slot is 0 whatever the
\* sign of the peaks before it.
C6_PeakRanking ==
    (pc = "built" /\ Len(sub_event) > 0) =>
        /\ \A k \in 1..5 : SlotIsKthLargest(k)
        /\ \A k \in 1..4 : k + 1 <= Len(peaks_idx) => SlotsDescend(k)
        /\ features.num_peaks = IntVal(Len(peaks_idx))
        /\ NoPeaksAllZero
        /\ LowerRanksAbsent

\* six peaks detected, the sixth-ranked strictly below peak_5
C6_Witness ==
    /\ pc = "built"
    /\ Len(peaks_idx) = 6
    /\ \E p \in DetectedPeaks : PeakCurrentAt(p) < features.peak_5.num

\* C10 as stated: for every non-empty window (a single-sample window
\* included) the extrema build_features obtains are the window's samples at
\* strictly increasing indices, so num_extrema <= num_signals.
C10_ExtremaSubsequence ==
    (pc = "built" /\ Len(sub_event) >= 1) =>
        /\ ~window_extrema.raised
        /\ \A k \in 1..Len(window_extrema.idx) :
              /\ window_extrema.idx[k] \in 1..Len(sub_event)
              /\ window_extrema.extrema[k] = sub_event[window_extrema.idx[k]]
              /\ k > 1 => window_extrema.idx[k - 1] < window_extrema.idx[k]
        /\ features.num_extrema = IntVal(Len(window_extrema.extrema))
        /\ features.num_extrema.num <= features.num_signals.num

(* ---------------- claims about _process_event (SpecSegment) ---------------- *)

\* the 0-based positions of the event that window k (0-based) covers when
\* the windows are step samples wide
WindowPositions(k, step) ==
    { j \in 0..(Len(event) - 1) : k * step <= j /\ j < (k + 1) * step }

\* the window width the claim names: the stepsize given, or
\* ceil(len(event)/timesteps), the least s with s * timesteps >= len(event)
ClaimedStep ==
    IF arg_stepsize # None /\ arg_stepsize[1] > 0
    THEN arg_stepsize[1]
    ELSE CHOOSE s \in 0..Len(event) :
            /\ s * timesteps[1] >= Len(event)
            /\ \A r \in 0..Len(event) : r * timesteps[1] >= Len(event) => s <= r

\* row k (0-based) describes the samples at WindowPositions(k, ClaimedStep)
RowBuiltFromWindow(k) ==
    LET row == compressed_event[k + 1]
        pos == WindowPositions(k, ClaimedStep)
    IN  /\ Len(row) = 17
        /\ row[1] = IntVal(Cardinality(pos))
        /\ pos = {} => \A f \in 1..17 : row[f] = Zero
        /\ pos # {} =>
              /\ \E j \in pos : /\ \A l \in pos : l <= j
                                 /\ row[2] = IntVal(Time(event[j + 1]))
              /\ \E j \in pos : /\ \A l \in pos : Current(event[l + 1]) <= Current(event[j + 1])
                                 /\ row[3] = IntVal(Current(event[j + 1]))
              /\ \E j \in pos : /\ \A l \in pos : Current(event[l + 1]) >= Current(event[j + 1])
                                 /\ row[4] = IntVal(Current(event[j + 1]))

\* C4: for every event (of length 0, below and above timesteps*stepsize)
\* and every timesteps T >= 1, with stepsize given or derived as
\* ceil(len(event)/T), _process_event returns exactly T rows of exactly 17
\* fields, row i built from event[i*stepsize:(i+1)*stepsize], and every row
\* whose window lies past the end of the event is all 0.
C4_SegmentShape ==
    /\ pc = "window" =>
          /\ Len(compressed_event) = row_i
          /\ \A k \in 0..(row_i - 1) : RowBuiltFromWindow(k)
    /\ pc = "returned" =>
          /\ Len(compressed_event) = timesteps[1]
          /\ \A k \in 0..(timesteps[1] - 1) : RowBuiltFromWindow(k)

\* a returned array with a derived stepsize whose first row is a window
\* of samples and whose last row lies past the end of the event
C4_Witness ==
    /\ pc = "returned"
    /\ arg_stepsize = None
    /\ Len(event) >= 2
    /\ timesteps[1] > Len(event)
    /\ compressed_event[1][1] = IntVal(1)
    /\ \A f \in 1..17 : compressed_event[timesteps[1]][f] = Zero

(* ---------------- claims about preprocess (Spec) ---------------- *)

Classes == 1..Len(raw_data)

\* how often the label of class c (its 0-based index) occurs in labels
LabelCount(c) == Cardinality({ k \in 1..Len(labels) : labels[k] = c - 1 })

PassesFilter(length) == 50 < length /\ length < 10000

\* how many loaded events of class c pass the length filter
PassCount(c) ==
    Cardinality({ k \in 1..Len(raw_data[c]) : PassesFilter(raw_data[c][k].len) })

\* C2 as stated: after preprocess over several classes every class label
\* occurs the same number of times, the minimum over the classes of the
\* class's count of events that pass the length filter, so the sample count
\* is (number of classes) * that minimum.
C2_BalancedAfterFilter ==
    (pc = "done" /\ Len(raw_data) >= 2) =>
        /\ \A c \in Classes : \A d \in Classes : LabelCount(c) <= PassCount(d)
        /\ \A c \in Classes : \E d \in Classes : LabelCount(c) = PassCount(d)
        /\ \A c \in Classes : \A d \in Classes : LabelCount(c) = LabelCount(d)

\* C3 as stated: run with zero classes, or with a class of which no event
\* survives the length filter, preprocess ends in an error and sets no
\* data/labels; it never returns a dataset that is missing a class.
C3_EmptyDatasetError ==
    /\ ( /\ pc \in {"done", "raised"}
         /\ \/ Len(raw_data) = 0
            \/ \E c \in Classes : PassCount(c) = 0 )
          => (pc = "raised" /\ raised # "none" /\ self_data = None /\ self_labels = None)
    /\ pc = "done" => \A c \in Classes : LabelCount(c) > 0

FilterHasRun ==
    \/ pc \in {"resolve", "segment", "done"}
    \/ pc = "raised" /\ raised = "max_empty"

\* the position of an event in the balanced subset of class c
PositionIn(c, ev) == CHOOSE k \in 1..Len(balanced_data[c]) : balanced_data[c][k] = ev

\* C7: an event is retained by preprocess exactly when 50 < len(event) <
\* 10000 (50 dropped, 51 retained, 9999 retained, 10000 dropped), and the
\* retained events of a class keep their relative order from the balanced
\* subset.
C7_LengthFilter ==
    /\ FilterHasRun =>
          /\ Len(normal_data) = Len(balanced_data)
          /\ \A c \in 1..Len(balanced_data) :
                /\ \A k \in 1..Len(balanced_data[c]) :
                      LET ev == balanced_data[c][k]
                      IN  (\E n \in 1..Len(normal_data[c]) : normal_data[c][n] = ev)
                             <=> PassesFilter(ev.len)
                /\ \A n \in 1..Len(normal_data[c]) :
                      /\ \E k \in 1..Len(balanced_data[c]) :
                            balanced_data[c][k] = normal_data[c][n]
                      /\ \A n2 \in 1..Len(normal_data[c]) :
                            n < n2 => PositionIn(c, normal_data[c][n])
                                        < PositionIn(c, normal_data[c][n2])
    /\ pc = "done" =>
          \A c \in Classes : LabelCount(c) = Len(normal_data[c])

\* a finished run in which events of length 50 and 10000 were dropped and
\* events of length 51 and 9999 were retained, one class keeping two events
C7_Witness ==
    /\ pc = "done"
    /\ \A length \in {50, 51, 9999, 10000} :
          \E c \in Classes : \E k \in 1..Len(balanced_data[c]) :
              balanced_data[c][k].len = length
    /\ \E c \in Classes : Len(normal_data[c]) = 2
    /\ \E c \in Classes : \E k \in 1..Len(normal_data[c]) : normal_data[c][k].len = 51
    /\ \E c \in Classes : \E k \in 1..Len(normal_data[c]) : normal_data[c][k].len = 9999

NothingPrepared ==
    /\ balanced_data = <<>> /\ normal_data = <<>>
    /\ data = <<>> /\ labels = <<>>
    /\ self_data = None /\ self_labels = None

\* C8: called with neither timesteps nor stepsize, preprocess ends in the
\* configuration error before any balancing, filtering or segmentation,
\* with no data/labels set; and when at least one of them is a positive
\* integer the configuration error is not raised.
C8_ConfigurationError ==
    /\ (arg_timesteps = None /\ arg_stepsize = None) =>
          /\ NothingPrepared
          /\ pc \in {"preprocess", "raised"}
          /\ pc = "raised" => raised = "config"
    /\ ( \/ arg_timesteps # None /\ arg_timesteps[1] > 0
         \/ arg_stepsize # None /\ arg_stepsize[1] > 0 )
          => raised # "config"

\* the configuration error raised on two loaded classes whose events would
\* all have been retained
C8_Witness ==
    /\ pc = "raised" /\ raised = "config"
    /\ arg_timesteps = None /\ arg_stepsize = None
    /\ Len(raw_data) = 2
    /\ \A c \in Classes : PassCount(c) = 2

====
